---- MODULE Spec2Model ----
(***************************************************************************)
(* go-commitlinter: the commit message linter of src/main.go.              *)
(*                                                                         *)
(* Strings are sequences of one-character strings, so that the regular     *)
(* expressions of the program are evaluated character by character.        *)
(* The state machine is one execution of main(): finally(run()).           *)
(***************************************************************************)
EXTENDS Integers, Sequences, FiniteSets, TLC

VARIABLES
    env,      \* what the process is started with: flag, files, standard input
    pc,       \* position in main()/run()
    conf,     \* run's conf
    s,        \* run's s, the raw line
    format,   \* run's format
    err,      \* the error run returns
    calls,    \* the functions run has called so far, in order
    exit      \* the exit code of the process, NoExit while it runs

vars == <<env, pc, conf, s, format, err, calls, exit>>

----------------------------------------------------------------------------
(* Characters and strings                                                  *)

LowerLetters == <<"a","b","c","d","e","f","g","h","i","j","k","l","m",
                  "n","o","p","q","r","s","t","u","v","w","x","y","z">>

UpperLetters == <<"A","B","C","D","E","F","G","H","I","J","K","L","M",
                  "N","O","P","Q","R","S","T","U","V","W","X","Y","Z">>

Range(f) == {f[k] : k \in DOMAIN f}

IsLower(c) == c \in Range(LowerLetters)

IsUpper(c) == c \in Range(UpperLetters)

\* the class [a-zA-Z]
IsLetter(c) == IsLower(c) \/ IsUpper(c)

\* the class \s, on the characters a line read by ReadLine can hold here
IsSpace(c) == c \in {" ", "\t"}

ToLowerChar(c) ==
    IF IsUpper(c)
    THEN LowerLetters[CHOOSE k \in DOMAIN UpperLetters : UpperLetters[k] = c]
    ELSE c

\* strings.ToLower
ToLower(str) == [k \in 1..Len(str) |-> ToLowerChar(str[k])]

\* strings.HasPrefix
HasPrefix(str, prefix) ==
    /\ Len(prefix) <= Len(str)
    /\ SubSeq(str, 1, Len(prefix)) = prefix

\* strings.TrimSuffix
TrimSuffix(str, suffix) ==
    IF /\ Len(suffix) <= Len(str)
       /\ SubSeq(str, Len(str) - Len(suffix) + 1, Len(str)) = suffix
    THEN SubSeq(str, 1, Len(str) - Len(suffix))
    ELSE str

\* strings.TrimPrefix
TrimPrefix(str, prefix) ==
    IF HasPrefix(str, prefix)
    THEN SubSeq(str, Len(prefix) + 1, Len(str))
    ELSE str

\* word occurs in str as a contiguous substring
Contains(str, word) ==
    \E k \in 0..(Len(str) - Len(word)) : SubSeq(str, k + 1, k + Len(word)) = word

Max(S) == CHOOSE x \in S : \A y \in S : y <= x

Min(S) == CHOOSE x \in S : \A y \in S : x <= y

----------------------------------------------------------------------------
(* Errors                                                                  *)

Nil == "nil"

ErrStyle == "invalid style error"

ErrType == "invalid type error"

ErrFormat == "invalid format error"

ErrScope == "invalid scope error"

ErrSubject == "invalid subject error"

\* the *PathError of os.Open: no sentinel of the program
ErrOpen == "open error"

----------------------------------------------------------------------------
(* Patterns.  A pattern is the regular expression a Config field holds;    *)
(* the model knows the patterns below and how regexp.MatchString answers.  *)

feat == <<"f","e","a","t">>

fix == <<"f","i","x">>

perf == <<"p","e","r","f">>

docs == <<"d","o","c","s">>

style == <<"s","t","y","l","e">>

refactor == <<"r","e","f","a","c","t","o","r">>

test == <<"t","e","s","t">>

build == <<"b","u","i","l","d">>

chore == <<"c","h","o","r","e">>

\* the alternation feat|fix|perf|docs|style|refactor|test|build|chore
scopePattern ==
    [kind |-> "alternation",
     words |-> {feat, fix, perf, docs, style, refactor, test, build, chore}]

\* one or more of a-z
stylePattern == [kind |-> "lowerRun"]

\* at the start of the text, one of a-z and then any number of \w
subjectPattern == [kind |-> "lowerInitial"]

\* the zero value of a pattern field the YAML document does not set
emptyPattern == [kind |-> "empty"]

\* a pattern regexp cannot compile, such as a lone parenthesis
brokenPattern == [kind |-> "broken"]

\* regexp.MatchString(pattern, str): an unanchored search
MatchString(pattern, str) ==
    CASE pattern.kind = "alternation" ->
            [matched |-> \E w \in pattern.words : Contains(str, w), err |-> FALSE]
      [] pattern.kind = "lowerRun" ->
            [matched |-> \E k \in 1..Len(str) : IsLower(str[k]), err |-> FALSE]
      [] pattern.kind = "lowerInitial" ->
            [matched |-> Len(str) > 0 /\ IsLower(str[1]), err |-> FALSE]
      [] pattern.kind = "empty" ->
            [matched |-> TRUE, err |-> FALSE]
      [] OTHER ->
            [matched |-> FALSE, err |-> TRUE]

----------------------------------------------------------------------------
(* FormatRegularPattern: one or more letters (group 1), an optional        *)
(* parenthesis group holding any characters (group 2), a colon, one or     *)
(* more \s, and any characters (group 3).  The pattern is searched for in  *)
(* the line with leftmost-first semantics: the leftmost start, then the    *)
(* longest type, the group rather than no group and the longest group,     *)
(* the longest run of \s, and the rest of the line.                        *)

\* the colon and the first \s can match from position p
SepAt(m, p) == p + 1 <= Len(m) /\ m[p] = ":" /\ IsSpace(m[p + 1])

\* the positions where group 2 can end when it starts after position j
GroupEnds(m, j) ==
    IF j + 1 <= Len(m) /\ m[j + 1] = "("
    THEN {c \in (j + 2)..Len(m) : m[c] = ")" /\ SepAt(m, c + 1)}
    ELSE {}

\* the positions where group 1 can end when the match starts at i
TypeEnds(m, i) ==
    {j \in i..Len(m) :
        /\ \A k \in i..j : IsLetter(m[k])
        /\ (GroupEnds(m, j) # {} \/ SepAt(m, j + 1))}

MatchStarts(m) == {i \in 1..Len(m) : TypeEnds(m, i) # {}}

\* the search with a pattern that takes one \s after the colon, not a run
FindAllStringSubmatch_OneSpace(m) ==
    IF MatchStarts(m) = {}
    THEN <<>>
    ELSE LET i == Min(MatchStarts(m))
             j == Max(TypeEnds(m, i))
             ge == GroupEnds(m, j)
             p == IF ge # {} THEN Max(ge) + 1 ELSE j + 1
         IN  << <<SubSeq(m, i, Len(m)),
                  SubSeq(m, i, j),
                  IF ge # {} THEN SubSeq(m, j + 1, Max(ge)) ELSE <<>>,
                  SubSeq(m, p + 2, Len(m))>> >>

\* p.FindAllStringSubmatch(m, 1): no match, or the one match with its groups
FindAllStringSubmatch(m) ==
    IF MatchStarts(m) = {}
    THEN <<>>
    ELSE LET i == Min(MatchStarts(m))
             j == Max(TypeEnds(m, i))
             ge == GroupEnds(m, j)
             p == IF ge # {} THEN Max(ge) + 1 ELSE j + 1
             w == Max({x \in (p + 1)..Len(m) : \A k \in (p + 1)..x : IsSpace(m[k])})
         IN  << <<SubSeq(m, i, Len(m)),
                  SubSeq(m, i, j),
                  IF ge # {} THEN SubSeq(m, j + 1, Max(ge)) ELSE <<>>,
                  SubSeq(m, w + 1, Len(m))>> >>

NoFormat == [Type |-> <<>>, Scope |-> <<>>, Subject |-> <<>>]

\* NewFormat without the test for an empty type or subject
NewFormat_NoEmptyTest(m) ==
    LET ss == FindAllStringSubmatch(m) IN
    IF Len(ss) = 0 \/ Len(ss[1]) # 4
    THEN [format |-> NoFormat, err |-> ErrFormat]
    ELSE LET group == ss[1][3]
             scope == IF group # <<>>
                      THEN TrimPrefix(TrimSuffix(group, <<")">>), <<"(">>)
                      ELSE group
         IN  IF group # <<>> /\ scope = <<>>
             THEN [format |-> NoFormat, err |-> ErrScope]
             ELSE [format |-> [Type |-> ss[1][2], Scope |-> scope,
                               Subject |-> ss[1][4]],
                   err |-> Nil]

NewFormat(m) ==
    LET ss == FindAllStringSubmatch(m) IN
    IF Len(ss) = 0 \/ Len(ss[1]) # 4
    THEN [format |-> NoFormat, err |-> ErrFormat]
    ELSE LET t == ss[1][2]
             subject == ss[1][4]
             group == ss[1][3]
             scope == IF group # <<>>
                      THEN TrimPrefix(TrimSuffix(group, <<")">>), <<"(">>)
                      ELSE group
         IN  IF t = <<>> \/ subject = <<>>
             THEN [format |-> NoFormat, err |-> ErrFormat]
             ELSE IF group # <<>> /\ scope = <<>>
             THEN [format |-> NoFormat, err |-> ErrScope]
             ELSE [format |-> [Type |-> t, Scope |-> scope, Subject |-> subject],
                   err |-> Nil]

----------------------------------------------------------------------------
(* The linters and Verify                                                  *)

scopeLinter(f, pattern) ==
    IF Len(f.Scope) = 0
    THEN Nil
    ELSE LET r == MatchString(pattern, f.Scope) IN
         IF r.err \/ ~r.matched THEN ErrStyle ELSE Nil

\* subjectLinter rejecting only a subject that starts with an uppercase letter
subjectLinter_NotUpper(f, pattern) ==
    IF ~(Len(f.Subject) > 0)
    THEN ErrFormat
    ELSE IF IsUpper(f.Subject[1]) THEN ErrSubject ELSE Nil

subjectLinter(f, pattern) ==
    IF ~(Len(f.Subject) > 0)
    THEN ErrFormat
    ELSE LET r == MatchString(pattern, f.Subject) IN
         IF r.err \/ ~r.matched THEN ErrSubject ELSE Nil

\* typeLinter testing the case of the type before the vocabulary
typeLinter_CaseFirst(f, c) ==
    IF f.Type # ToLower(f.Type)
    THEN ErrStyle
    ELSE IF \E k \in 1..Len(c.TypeRules) : c.TypeRules[k] = f.Type
    THEN Nil
    ELSE ErrType

\* typeLinter comparing the type with the vocabulary without regard to case
typeLinter_FoldCase(f, c) ==
    IF \E k \in 1..Len(c.TypeRules) : ToLower(c.TypeRules[k]) = ToLower(f.Type)
    THEN Nil
    ELSE IF f.Type # ToLower(f.Type) THEN ErrStyle ELSE ErrType

typeLinter(f, c) ==
    IF \E k \in 1..Len(c.TypeRules) : c.TypeRules[k] = f.Type
    THEN Nil
    ELSE IF f.Type # ToLower(f.Type) THEN ErrStyle ELSE ErrType

\* Verify checking the subject before the type and the scope
Verify_SubjectFirst(f, c) ==
    LET e1 == typeLinter(f, c)
        e2 == scopeLinter(f, c.ScopePattern)
        e3 == subjectLinter(f, c.SubjectPattern)
    IN  IF e3 # Nil
        THEN [err |-> e3, ran |-> <<"subjectLinter">>]
        ELSE IF e1 # Nil
        THEN [err |-> e1, ran |-> <<"subjectLinter", "typeLinter">>]
        ELSE [err |-> e2, ran |-> <<"subjectLinter", "typeLinter", "scopeLinter">>]

\* Verify, with the linters it called: [err, ran]
Verify(f, c) ==
    LET e1 == typeLinter(f, c)
        e2 == scopeLinter(f, c.ScopePattern)
        e3 == subjectLinter(f, c.SubjectPattern)
    IN  IF e1 # Nil
        THEN [err |-> e1, ran |-> <<"typeLinter">>]
        ELSE IF e2 # Nil
        THEN [err |-> e2, ran |-> <<"typeLinter", "scopeLinter">>]
        ELSE [err |-> e3, ran |-> <<"typeLinter", "scopeLinter", "subjectLinter">>]

----------------------------------------------------------------------------
(* Config, the built-in default and the YAML documents                     *)

Merge == <<"M","e","r","g","e"," ">>

MergeBranch == <<"M","e","r","g","e"," ","b","r","a","n","c","h"," ">>

BREAKING == <<"B","R","E","A","K","I","N","G",":"," ">>

Feat == <<"F","e","a","t">>

DefaultTypes == <<feat, fix, perf, docs, style, refactor, test, build, chore>>

DefaultConfig ==
    [SkipPrefixes |-> <<Merge, BREAKING>>,
     TypeRules |-> DefaultTypes,
     StylePattern |-> stylePattern,
     SubjectPattern |-> subjectPattern,
     ScopePattern |-> scopePattern]

\* Config{}
ZeroConfig ==
    [SkipPrefixes |-> <<>>,
     TypeRules |-> <<>>,
     StylePattern |-> emptyPattern,
     SubjectPattern |-> emptyPattern,
     ScopePattern |-> emptyPattern]

\* A YAML document: the keys it sets (keys) and their values; the value of
\* a key it does not set is never read.
ConfigKeys == {"skip_prefixes", "type_rules", "style_pattern", "scope_pattern",
               "subject_pattern"}

\* the document the README gives as the default rules: it sets no pattern
ReadmeDoc ==
    [keys |-> {"skip_prefixes", "type_rules"},
     skip_prefixes |-> <<MergeBranch, BREAKING>>,
     type_rules |-> DefaultTypes,
     style_pattern |-> emptyPattern,
     scope_pattern |-> emptyPattern,
     subject_pattern |-> emptyPattern]

\* a rule file with a type of its own that is not lowercase, the scope held
\* to the style pattern, and a subject pattern that does not compile
CustomDoc ==
    [keys |-> ConfigKeys \ {"style_pattern"},
     skip_prefixes |-> << <<"W","I","P">> >>,
     type_rules |-> <<Feat, fix>>,
     style_pattern |-> emptyPattern,
     scope_pattern |-> stylePattern,
     subject_pattern |-> brokenPattern]

\* yaml.NewDecoder(f).Decode(&conf): a field the document does not set keeps
\* its zero value
Decode(doc) ==
    [SkipPrefixes |-> IF "skip_prefixes" \in doc.keys
                      THEN doc.skip_prefixes ELSE ZeroConfig.SkipPrefixes,
     TypeRules |-> IF "type_rules" \in doc.keys
                   THEN doc.type_rules ELSE ZeroConfig.TypeRules,
     StylePattern |-> IF "style_pattern" \in doc.keys
                      THEN doc.style_pattern ELSE ZeroConfig.StylePattern,
     SubjectPattern |-> IF "subject_pattern" \in doc.keys
                        THEN doc.subject_pattern ELSE ZeroConfig.SubjectPattern,
     ScopePattern |-> IF "scope_pattern" \in doc.keys
                      THEN doc.scope_pattern ELSE ZeroConfig.ScopePattern]

\* A file of the configuration: absent, present but not openable, present
\* with text that is no YAML Config, or present with a document.
AbsentFile == [state |-> "absent", doc |-> ReadmeDoc]

UnreadableFile == [state |-> "unreadable", doc |-> ReadmeDoc]

MalformedFile == [state |-> "malformed", doc |-> ReadmeDoc]

YamlFile(doc) == [state |-> "ok", doc |-> doc]

\* os.Stat succeeds
fileExists(file) == file.state # "absent"

\* NewConfig falling back to the built-in default when the file cannot be
\* opened or decoded
NewConfig_DefaultOnError(filepath, e) ==
    IF filepath = "" /\ ~fileExists(e.defaultYaml)
    THEN [conf |-> DefaultConfig, err |-> FALSE]
    ELSE LET f == IF filepath = "" THEN e.defaultYaml ELSE e.ruleYaml IN
         IF f.state # "ok"
         THEN [conf |-> DefaultConfig, err |-> FALSE]
         ELSE [conf |-> Decode(f.doc), err |-> FALSE]

\* NewConfig(filepath) in the environment e: [conf, err]; filepath is "" or
\* the path of e.ruleYaml, and defaultYamlName is the path of e.defaultYaml
NewConfig(filepath, e) ==
    IF filepath = "" /\ ~fileExists(e.defaultYaml)
    THEN [conf |-> DefaultConfig, err |-> FALSE]
    ELSE LET f == IF filepath = "" THEN e.defaultYaml ELSE e.ruleYaml IN
         IF f.state \in {"absent", "unreadable"}
         THEN [conf |-> ZeroConfig, err |-> TRUE]
         ELSE IF f.state = "malformed"
         THEN [conf |-> ZeroConfig, err |-> TRUE]
         ELSE [conf |-> Decode(f.doc), err |-> FALSE]

----------------------------------------------------------------------------
(* getMessage                                                              *)

\* reader.ReadLine() on a stream of lines: the first line, or nothing and
\* io.EOF at the end of the stream
ReadLine(lines) ==
    IF Len(lines) = 0
    THEN [b |-> <<>>, err |-> TRUE]
    ELSE [b |-> lines[1], err |-> FALSE]

\* getMessage reading the commit message file before standard input
getMessage_FileFirst(e) ==
    LET r == ReadLine(e.commitMsg.lines) IN
    IF e.commitMsg.exists /\ ~r.err
    THEN [s |-> r.b, err |-> Nil]
    ELSE LET b == ReadLine(e.stdin).b IN
         IF Len(b) # 0
         THEN [s |-> b, err |-> Nil]
         ELSE [s |-> <<>>, err |-> ErrFormat]

\* getMessage() in the environment e: [s, err]
getMessage(e) ==
    LET b == ReadLine(e.stdin).b IN
    IF Len(b) # 0
    THEN [s |-> b, err |-> Nil]
    ELSE IF ~e.commitMsg.exists
    THEN [s |-> <<>>, err |-> ErrOpen]
    ELSE LET r == ReadLine(e.commitMsg.lines) IN
         IF r.err
         THEN [s |-> <<>>, err |-> ErrFormat]
         ELSE [s |-> r.b, err |-> Nil]

----------------------------------------------------------------------------
(* The lines and the environments the model runs the program on            *)

\* the longest run of blanks the lines have after the colon
MaxPad == 2

Pads == UNION {[1..n -> {" ", "\t"}] : n \in 0..MaxPad}

TypeTokens == Range(DefaultTypes) \cup {<<>>, Feat, <<"w","i","p">>}

GroupTokens ==
    {<<>>,
     <<"(",")">>,
     <<"(">> \o test \o <<")">>,
     <<"(","p","a","r","s","e","r",")">>,
     <<"(","H","e","s","t",")">>,
     <<"(","H","o","t","f","i","x",")">>}

SubjectTokens ==
    {<<"s","a","m","p","l","e","s">>,
     <<"S","a","m","p","l","e","s">>,
     <<"1","s","t">>,
     <<"a",")",":"," ","b">>,
     <<"a","d","d"," ">>}

\* type, group, colon, one blank, subject
PlainLines ==
    {t \o g \o <<":", " ">> \o u :
        t \in TypeTokens, g \in GroupTokens, u \in SubjectTokens}

\* the colon followed by no blank, or by any run of blanks, and then by
\* nothing or by more text
PaddedLines ==
    {t \o g \o <<":">> \o pad \o u :
        t \in {feat},
        g \in {<<>>, <<"(">> \o test \o <<")">>},
        pad \in Pads,
        u \in {<<>>, <<"s","a","m","p","l","e","s">>,
               <<"a","d","d"," ">>,
               <<"x"," ","f","i","x",":"," ","y">>}}

\* text before the type, skip prefixes among it, and lines without a colon
PrefixedLines ==
    {pre \o rest :
        pre \in {Merge, MergeBranch, BREAKING, <<"W","I","P">>,
                 <<"M","e","r","g","e">>, <<"1"," ">>, <<"x"," ">>},
        rest \in {<<>>, <<"b","r","a","n","c","h">>,
                  feat \o <<":", " ", "x">>, Feat \o <<":", " ", "X">>}}

Lines == PlainLines \cup PaddedLines \cup PrefixedLines

SampleLines == {feat \o <<":", " ", "x">>, Merge \o <<"x">>}

MissingCommitMsg == [exists |-> FALSE, lines |-> <<>>]

CommitMsg(lines) == [exists |-> TRUE, lines |-> lines]

\* the flag, the two configuration files, standard input and
\* .git/COMMIT_EDITMSG
ConfigEnvs ==
    {[rule |-> "", defaultYaml |-> d, ruleYaml |-> AbsentFile] :
        d \in {AbsentFile, UnreadableFile, MalformedFile, YamlFile(ReadmeDoc)}}
    \cup
    {[rule |-> "rule.yaml", defaultYaml |-> AbsentFile, ruleYaml |-> r] :
        r \in {AbsentFile, MalformedFile, YamlFile(CustomDoc)}}

LoadableConfigEnvs ==
    {c \in ConfigEnvs : ~NewConfig(c.rule, c).err}

\* a line on standard input, as a commit-msg hook that pipes the title has
MessageEnvs ==
    {[stdin |-> <<l>>, commitMsg |-> MissingCommitMsg] : l \in Lines}

\* standard input empty, starting with an empty line or holding a line, and
\* the commit message file missing, empty, starting with an empty line or
\* holding a line
SampleMessageEnvs ==
    {[stdin |-> i, commitMsg |-> f] :
        i \in {<<>>, << <<>> >>} \cup {<< <<>>, l >> : l \in SampleLines}
              \cup {<<l>> : l \in SampleLines},
        f \in {MissingCommitMsg, CommitMsg(<<>>)}
              \cup {CommitMsg(<< <<>>, l >>) : l \in SampleLines}
              \cup {CommitMsg(<<l>>) : l \in SampleLines}}

Environment(c, m) ==
    [rule |-> c.rule, defaultYaml |-> c.defaultYaml, ruleYaml |-> c.ruleYaml,
     stdin |-> m.stdin, commitMsg |-> m.commitMsg]

----------------------------------------------------------------------------
(* main(): finally(run())                                                  *)

Init ==
    /\ env \in {Environment(c, m) : c \in LoadableConfigEnvs, m \in MessageEnvs}
               \cup {Environment(c, m) : c \in ConfigEnvs, m \in SampleMessageEnvs}
    /\ pc = "NewConfig"
    /\ conf = ZeroConfig
    /\ s = <<>>
    /\ format = NoFormat
    /\ err = Nil
    /\ calls = <<>>
    /\ exit = <<>>

\* run: conf, err := NewConfig(*r), and log.Fatal(err) on an error
LoadConfig ==
    /\ pc = "NewConfig"
    /\ LET r == NewConfig(env.rule, env) IN
       /\ conf' = r.conf
       /\ pc' = IF r.err THEN "fatal" ELSE "getMessage"
       /\ exit' = IF r.err THEN <<1>> ELSE exit
    /\ calls' = Append(calls, "NewConfig")
    /\ UNCHANGED <<env, s, format, err>>

\* run: s, err := getMessage(), returned on an error
ReadMessage ==
    /\ pc = "getMessage"
    /\ LET r == getMessage(env) IN
       /\ s' = r.s
       /\ err' = r.err
       /\ pc' = IF r.err # Nil THEN "finally" ELSE "skipPrefixes"
    /\ calls' = Append(calls, "getMessage")
    /\ UNCHANGED <<env, conf, format, exit>>

\* the loop leaving after its first iteration
SkippedByPrefix_FirstOnly(line, c) ==
    Len(c.SkipPrefixes) >= 1 /\ HasPrefix(line, c.SkipPrefixes[1])

\* the loop over conf.SkipPrefixes finds a prefix of s
SkippedByPrefix(line, c) ==
    \E k \in 1..Len(c.SkipPrefixes) : HasPrefix(line, c.SkipPrefixes[k])

\* run: return "", conf, nil out of the loop
Skip ==
    /\ pc = "skipPrefixes"
    /\ SkippedByPrefix(s, conf)
    /\ err' = Nil
    /\ pc' = "finally"
    /\ UNCHANGED <<env, conf, s, format, calls, exit>>

\* run: format, err := NewFormat(s), returned on an error
Parse ==
    /\ pc = "skipPrefixes"
    /\ ~SkippedByPrefix(s, conf)
    /\ LET r == NewFormat(s) IN
       /\ format' = r.format
       /\ err' = r.err
       /\ pc' = IF r.err # Nil THEN "finally" ELSE "Verify"
    /\ calls' = Append(calls, "NewFormat")
    /\ UNCHANGED <<env, conf, s, exit>>

\* run: format.Verify(conf), and the return of run
VerifyFormat ==
    /\ pc = "Verify"
    /\ LET r == Verify(format, conf) IN
       /\ err' = r.err
       /\ calls' = Append(calls, "Verify") \o r.ran
    /\ pc' = "finally"
    /\ UNCHANGED <<env, conf, s, format, exit>>

\* finally without the case of ErrScope ahead of the return on no message
finally_ScopeReturns(e) ==
    CASE e \in {ErrFormat, ErrType, ErrStyle, ErrSubject} ->
            [pc |-> "exited", exit |-> <<1>>]
      [] e \in {Nil, ErrScope} ->
            [pc |-> "exited", exit |-> <<0>>]
      [] OTHER ->
            [pc |-> "fatal", exit |-> <<1>>]

\* the exit code finally ends the process with: 0 by returning on nil, 1 by
\* os.Exit(1) on the five errors, 1 by log.Fatal on any other error
finally(e) ==
    CASE e \in {ErrFormat, ErrType, ErrStyle, ErrScope, ErrSubject} ->
            [pc |-> "exited", exit |-> <<1>>]
      [] e = Nil ->
            [pc |-> "exited", exit |-> <<0>>]
      [] OTHER ->
            [pc |-> "fatal", exit |-> <<1>>]

Finally ==
    /\ pc = "finally"
    /\ pc' = finally(err).pc
    /\ exit' = finally(err).exit
    /\ UNCHANGED <<env, conf, s, format, err, calls>>

Next ==
    \/ LoadConfig
    \/ ReadMessage
    \/ Skip
    \/ Parse
    \/ VerifyFormat
    \/ Finally

Spec == Init /\ [][Next]_vars

----------------------------------------------------------------------------
(* Reading a line by its text, without the regular expression              *)

\* the length of the run of letters the line starts with
LetterPrefix(line) ==
    Max({n \in 0..Len(line) : \A k \in 1..n : IsLetter(line[k])})

\* the position of the first ch at or after position from, 0 when none
IndexFrom(line, ch, from) ==
    LET at == {k \in from..Len(line) : line[k] = ch} IN
    IF at = {} THEN 0 ELSE Min(at)

\* the line without the run of blanks it starts with
TrimLeftBlanks(str) ==
    LET n == Max({x \in 0..Len(str) : \A k \in 1..x : IsSpace(str[k])}) IN
    SubSeq(str, n + 1, Len(str))

IsBlank(str) == \A k \in 1..Len(str) : IsSpace(str[k])

\* run has returned from NewFormat(s), and err and format are its results
ParsedState == calls # <<>> /\ calls[Len(calls)] = "NewFormat"

\* run has returned from format.Verify(conf), and err is its result
VerifiedState == "Verify" \in Range(calls)

LinterRan(name) == VerifiedState /\ name \in Range(calls)

FailureKinds == {ErrFormat, ErrScope, ErrType, ErrStyle, ErrSubject}

----------------------------------------------------------------------------
(* C1 *)

\* type(scope): subject, with the type one of the nine default types, the
\* scope one or more lowercase letters, one blank after the colon, and a
\* subject that starts with a lowercase letter
ValidLine(line) ==
    LET n == LetterPrefix(line)
        c == IndexFrom(line, ")", n + 2)
    IN  /\ SubSeq(line, 1, n) \in Range(DefaultTypes)
        /\ n + 1 <= Len(line) /\ line[n + 1] = "("
        /\ c > n + 2
        /\ \A k \in (n + 2)..(c - 1) : IsLower(line[k])
        /\ c + 3 <= Len(line)
        /\ line[c + 1] = ":" /\ line[c + 2] = " "
        /\ IsLower(line[c + 3])

\* C1: under the built-in default configuration, every line of the form
\* type(scope): subject with a default type, a non-empty lowercase scope and
\* a subject that begins with a lowercase letter is parsed by NewFormat and
\* Verify returns no error.
C1_ValidLinePasses ==
    (conf = DefaultConfig /\ pc \in {"finally", "exited"} /\ ValidLine(s))
        => (VerifiedState /\ err = Nil)

----------------------------------------------------------------------------
(* C2 *)

InVocabulary(type, c) == type \in Range(c.TypeRules)

\* C2: once Verify has returned, for every configuration: a type equal to an
\* entry of the vocabulary passed the type check (the scope check ran); a
\* type that is no entry and differs from its lowercase form made Verify
\* return StyleError; a type that is no entry and is all lowercase made
\* Verify return TypeError.
C2_TypeCheck ==
    VerifiedState =>
        /\ InVocabulary(format.Type, conf) => LinterRan("scopeLinter")
        /\ (~InVocabulary(format.Type, conf) /\ format.Type # ToLower(format.Type))
              => (err = ErrStyle /\ ~LinterRan("scopeLinter"))
        /\ (~InVocabulary(format.Type, conf) /\ format.Type = ToLower(format.Type))
              => (err = ErrType /\ ~LinterRan("scopeLinter"))

\* a type that differs from a vocabulary entry only in case is a StyleError,
\* and the same spelling is accepted once the vocabulary holds it
C2_Witness ==
    /\ VerifiedState
    /\ format.Type = Feat
    /\ ~InVocabulary(Feat, conf)
    /\ InVocabulary(feat, conf)
    /\ err = ErrStyle

----------------------------------------------------------------------------
(* C3 *)

\* the linters Verify called, in order
LintersRun ==
    LET at == CHOOSE k \in 1..Len(calls) : calls[k] = "Verify" IN
    SubSeq(calls, at + 1, Len(calls))

\* C3: Verify calls typeLinter, then scopeLinter, then subjectLinter, and
\* returns at the first that fails: a failing type check is what Verify
\* returns and neither later check runs; with the type check passed, a
\* failing scope check is what Verify returns and the subject check does not
\* run; so neither case reports SubjectError.
C3_FirstFailureWins ==
    VerifiedState =>
        LET e1 == typeLinter(format, conf)
            e2 == scopeLinter(format, conf.ScopePattern)
            e3 == subjectLinter(format, conf.SubjectPattern)
        IN  /\ e1 # Nil =>
                /\ err = e1 /\ err # ErrSubject
                /\ LintersRun = <<"typeLinter">>
            /\ (e1 = Nil /\ e2 # Nil) =>
                /\ err = e2 /\ err # ErrSubject
                /\ LintersRun = <<"typeLinter", "scopeLinter">>
            /\ (e1 = Nil /\ e2 = Nil) =>
                /\ err = e3
                /\ LintersRun = <<"typeLinter", "scopeLinter", "subjectLinter">>

\* a message whose type, scope and subject all fail their checks
C3_Witness ==
    /\ VerifiedState
    /\ typeLinter(format, conf) = ErrType
    /\ scopeLinter(format, conf.ScopePattern) = ErrStyle
    /\ subjectLinter(format, conf.SubjectPattern) = ErrSubject
    /\ err = ErrType

----------------------------------------------------------------------------
(* C4 *)

\* the subject of a line whose colon is at position p: what follows the
\* blanks after the colon; <<>> when no blank follows the colon
SubjectAfter(line, p) ==
    IF p + 1 <= Len(line) /\ IsSpace(line[p + 1])
    THEN TrimLeftBlanks(SubSeq(line, p + 1, Len(line)))
    ELSE <<>>

\* type: subject, with no parenthesis after the type
NoGroupLine(line) ==
    LET n == LetterPrefix(line) IN
    /\ n >= 1
    /\ n + 1 <= Len(line) /\ line[n + 1] = ":"
    /\ SubjectAfter(line, n + 1) # <<>>

\* type(): subject
EmptyGroupLine(line) ==
    LET n == LetterPrefix(line) IN
    /\ n >= 1
    /\ n + 3 <= Len(line)
    /\ line[n + 1] = "(" /\ line[n + 2] = ")" /\ line[n + 3] = ":"
    /\ SubjectAfter(line, n + 3) # <<>>

\* C4: once NewFormat has returned, for every line with a non-empty type
\* and a non-empty subject: with no parenthesized group the parse succeeded
\* with the empty scope, and with the group () NewFormat returned ScopeError.
C4_AbsentOrEmptyScope ==
    ParsedState =>
        /\ NoGroupLine(s) => (err = Nil /\ format.Scope = <<>>)
        /\ EmptyGroupLine(s) => err = ErrScope

----------------------------------------------------------------------------
(* C5 *)

\* the line has a colon, and nothing or only blanks follow its first colon
BlankAfterColon(line) ==
    LET p == IndexFrom(line, ":", 1) IN
    p > 0 /\ IsBlank(SubSeq(line, p + 1, Len(line)))

\* C5: a line in which nothing or only spaces and tabs follow the colon
\* makes NewFormat return FormatError: once NewFormat has run on it, the
\* error is FormatError in every later state and Verify is never called, so
\* the line neither parses nor yields SubjectError.
C5_BlankSubjectIsFormatError ==
    (BlankAfterColon(s) /\ "NewFormat" \in Range(calls))
        => (err = ErrFormat /\ format = NoFormat /\ ~VerifiedState)

\* a type and a scope, the colon, and then blanks with a tab among them
C5_Witness ==
    /\ ParsedState
    /\ BlankAfterColon(s)
    /\ LetterPrefix(s) >= 1
    /\ IndexFrom(s, "(", 1) > 0
    /\ Len(s) >= 2 /\ s[Len(s)] = "\t" /\ s[Len(s) - 1] = " "
    /\ err = ErrFormat

----------------------------------------------------------------------------
(* C6 *)

\* the position of the colon that follows the type and the group, if one
\* follows; 0 when the line does not start with a type, a group that is
\* closed by the first right parenthesis, and a colon
SeparatorColon(line) ==
    LET n == LetterPrefix(line)
        c == IndexFrom(line, ")", n + 2)
    IN  IF n >= 1 /\ n + 1 <= Len(line) /\ line[n + 1] = ":"
        THEN n + 1
        ELSE IF /\ n >= 1 /\ n + 1 <= Len(line) /\ line[n + 1] = "("
                /\ c > 0 /\ c + 1 <= Len(line) /\ line[c + 1] = ":"
        THEN c + 1
        ELSE 0

NoBlankAfterSeparator(line) ==
    LET p == SeparatorColon(line) IN
    p > 0 /\ (p = Len(line) \/ ~IsSpace(line[p + 1]))

\* C6: once NewFormat has returned, a line whose colon after the type and
\* the optional group is not followed by a blank made it return FormatError,
\* whatever comes later in the line.
C6_NoBlankIsFormatError ==
    (ParsedState /\ NoBlankAfterSeparator(s)) => err = ErrFormat

----------------------------------------------------------------------------
(* C7 *)

HasUpper(str) == \E k \in 1..Len(str) : IsUpper(str[k])

\* C7: under the default configuration, once Verify has returned with the
\* type check passed: the empty scope passed the scope check (the subject
\* check ran), and a non-empty scope with an uppercase letter in it made
\* Verify return StyleError.
C7_ScopeCheck ==
    (conf = DefaultConfig /\ LinterRan("scopeLinter")) =>
        /\ format.Scope = <<>> => LinterRan("subjectLinter")
        /\ (format.Scope # <<>> /\ HasUpper(format.Scope))
              => (err = ErrStyle /\ ~LinterRan("subjectLinter"))

----------------------------------------------------------------------------
(* C8 *)

\* C8 as claimed: under the default configuration, once Verify has returned
\* with the type and scope checks passed, it returned SubjectError exactly
\* when the subject starts with an uppercase letter, and no error otherwise.
C8_SubjectErrorIffUpper ==
    (conf = DefaultConfig /\ LinterRan("subjectLinter")) =>
        /\ err = ErrSubject <=> IsUpper(format.Subject[1])
        /\ err = Nil <=> ~IsUpper(format.Subject[1])

\* C8 as amended: under the default configuration, once Verify has returned
\* with the type and scope checks passed, it returned SubjectError exactly
\* when the subject does not start with a lowercase letter a-z (an uppercase
\* letter, a digit, punctuation), and no error exactly when it does.
C8_SubjectErrorIffNotLower ==
    (conf = DefaultConfig /\ LinterRan("subjectLinter")) =>
        /\ err = ErrSubject <=> ~IsLower(format.Subject[1])
        /\ err = Nil <=> IsLower(format.Subject[1])

\* a subject that starts with a digit is a SubjectError
C8_Witness ==
    /\ conf = DefaultConfig
    /\ LinterRan("subjectLinter")
    /\ ~IsLetter(format.Subject[1])
    /\ err = ErrSubject

----------------------------------------------------------------------------
(* C9 *)

StartsWithSkipPrefix(line, c) ==
    \E prefix \in Range(c.SkipPrefixes) : HasPrefix(line, prefix)

\* C9: a raw line that starts with a skip prefix of the configuration is
\* accepted without NewFormat or Verify being called: in every state of run
\* after the line is read, neither is among the calls, the error is nil, and
\* the process exits, if it has, with code 0.
C9_SkipBeforeParsing ==
    ("getMessage" \in Range(calls) /\ StartsWithSkipPrefix(s, conf)) =>
        /\ "NewFormat" \notin Range(calls)
        /\ "Verify" \notin Range(calls)
        /\ err = Nil
        /\ exit \in {<<>>, <<0>>}

\* a line skipped for the second prefix of the configuration, which
\* NewFormat would have parsed and Verify refused, has exited with code 0
C9_Witness ==
    /\ pc = "exited"
    /\ exit = <<0>>
    /\ Len(conf.SkipPrefixes) >= 2
    /\ HasPrefix(s, conf.SkipPrefixes[2])
    /\ NewFormat(s).err = Nil
    /\ Verify(NewFormat(s).format, conf).err # Nil
    /\ calls = <<"NewConfig", "getMessage">>

----------------------------------------------------------------------------
(* C10 *)

\* run returned nil from the loop over the skip prefixes
SkippedRun ==
    /\ "getMessage" \in Range(calls)
    /\ "NewFormat" \notin Range(calls)
    /\ StartsWithSkipPrefix(s, conf)

\* run returned nil after NewFormat and Verify returned no error
PassedRun == VerifiedState /\ err = Nil

\* C10: a process that has ended has exit code 0 exactly when the line was
\* skipped or passed parsing and verification, and exit code 1 when run
\* returned one of the five failure kinds.
C10_ExitCode ==
    exit # <<>> =>
        /\ exit = <<0>> <=> (SkippedRun \/ PassedRun)
        /\ err \in FailureKinds => exit = <<1>>
        /\ exit \in {<<0>>, <<1>>}

\* the process has ended with code 1 on the scope error of NewFormat
C10_Witness ==
    /\ pc = "exited"
    /\ exit = <<1>>
    /\ err = ErrScope
    /\ ParsedState

----------------------------------------------------------------------------
(* C11 *)

\* that file cannot be opened (the flag names a missing file, or the file
\* is not readable) or its text cannot be decoded
ConfigLoadFails(e) ==
    \/ e.rule # "" /\ e.ruleYaml.state \in {"absent", "unreadable", "malformed"}
    \/ e.rule = "" /\ e.defaultYaml.state \in {"unreadable", "malformed"}

\* C11: when the configuration cannot be opened or decoded, NewConfig
\* returns an error and not the default: once it has returned, the process
\* has ended by log.Fatal with code 1, conf is not the default, NewConfig is
\* the only call made (no message read, parsed or verified), and the error
\* of run is none of the five failure kinds.
C11_ConfigFailureIsFatal ==
    (ConfigLoadFails(env) /\ calls # <<>>) =>
        /\ pc = "fatal"
        /\ exit = <<1>>
        /\ conf # DefaultConfig
        /\ calls = <<"NewConfig">>
        /\ s = <<>>
        /\ err \notin FailureKinds

\* a rule file that does not decode, with a well-formed line waiting on
\* standard input: the process has ended without reading it
C11_Witness ==
    /\ env.rule # ""
    /\ env.ruleYaml.state = "malformed"
    /\ Len(env.stdin) >= 1 /\ NewFormat(env.stdin[1]).err = Nil
    /\ pc = "fatal"
    /\ calls = <<"NewConfig">>

----------------------------------------------------------------------------
(* C12 *)

\* C12 as claimed: once Verify has returned, for every configuration, a
\* type that is not entirely lowercase made it return StyleError, whether
\* or not the type is an entry of the vocabulary.
C12_NotLowerTypeIsStyleError ==
    (VerifiedState /\ format.Type # ToLower(format.Type)) => err = ErrStyle

\* C12 as amended: once Verify has returned, for every configuration, a
\* type that is not entirely lowercase made it return StyleError if the
\* type is no entry of the vocabulary; if the type is an entry, the type
\* check passed and the scope check ran.
C12_NotLowerTypeOutsideVocabulary ==
    (VerifiedState /\ format.Type # ToLower(format.Type)) =>
        /\ ~InVocabulary(format.Type, conf)
              => (err = ErrStyle /\ LintersRun = <<"typeLinter">>)
        /\ InVocabulary(format.Type, conf)
              => (Len(LintersRun) >= 2 /\ LintersRun[2] = "scopeLinter")

\* a vocabulary with the entry Feat, and the type Feat passing the type
\* check: Verify returns what a later check returns
C12_Witness ==
    /\ VerifiedState
    /\ format.Type = Feat
    /\ InVocabulary(Feat, conf)
    /\ format.Scope = <<>>
    /\ LinterRan("subjectLinter")
    /\ err # ErrStyle

----------------------------------------------------------------------------
(* C13 *)

\* C13: once NewFormat has returned, it succeeded only if the type begins
\* at the first character of the line (the type is the run of letters the
\* line starts with), and a line that starts with anything but a letter of
\* the type made it return FormatError.
C13_TypeStartsTheLine ==
    ParsedState =>
        /\ err = Nil =>
              /\ LetterPrefix(s) >= 1
              /\ format.Type = SubSeq(s, 1, LetterPrefix(s))
        /\ LetterPrefix(s) = 0 => err = ErrFormat

----------------------------------------------------------------------------
(* C14 *)

IsSuffix(str, suffix) ==
    /\ Len(suffix) <= Len(str)
    /\ SubSeq(str, Len(str) - Len(suffix) + 1, Len(str)) = suffix

----------------------------------------------------------------------------
(* C15 *)

\* run has returned from getMessage and called nothing since: s and err
\* are its results
GotMessageState == calls = <<"NewConfig", "getMessage">>

NonEmptyAt(lines) == {k \in 1..Len(lines) : lines[k] # <<>>}

\* C15 as claimed: once getMessage has returned, it returned the first
\* non-empty line of standard input if there is one; if there is none, the
\* first line of the commit message file; and an error, never the empty
\* message without one, if neither gives a line.
C15_FirstNonEmptyLine ==
    GotMessageState =>
        LET in == env.stdin
            file == env.commitMsg
            fileGives == file.exists /\ Len(file.lines) >= 1 /\ file.lines[1] # <<>>
        IN  /\ NonEmptyAt(in) # {}
                  => (err = Nil /\ s = in[Min(NonEmptyAt(in))])
            /\ (NonEmptyAt(in) = {} /\ fileGives)
                  => (err = Nil /\ s = file.lines[1])
            /\ (NonEmptyAt(in) = {} /\ ~fileGives) => err # Nil
            /\ ~(err = Nil /\ s = <<>>)

\* C15 as amended: once getMessage has returned, it returned the first line
\* of standard input if that line exists and is not empty; otherwise the
\* open error if the commit message file is missing, FormatError if the
\* file is empty, and else the first line of the file, empty or not, with
\* no error.
C15_FirstLine ==
    GotMessageState =>
        LET in == env.stdin
            file == env.commitMsg
            inGives == Len(in) >= 1 /\ in[1] # <<>>
        IN  /\ inGives => (err = Nil /\ s = in[1])
            /\ (~inGives /\ ~file.exists) => (err = ErrOpen /\ s = <<>>)
            /\ (~inGives /\ file.exists /\ Len(file.lines) = 0)
                  => (err = ErrFormat /\ s = <<>>)
            /\ (~inGives /\ file.exists /\ Len(file.lines) >= 1)
                  => (err = Nil /\ s = file.lines[1])

\* standard input starts with an empty line and holds a line after it, and
\* the file holds another line: the message is the line of the file
C15_Witness ==
    /\ GotMessageState
    /\ Len(env.stdin) = 2 /\ env.stdin[1] = <<>> /\ env.stdin[2] # <<>>
    /\ env.commitMsg.exists
    /\ Len(env.commitMsg.lines) >= 1
    /\ env.commitMsg.lines[1] # <<>>
    /\ env.commitMsg.lines[1] # env.stdin[2]
    /\ err = Nil
    /\ s = env.commitMsg.lines[1]

----------------------------------------------------------------------------
(* C16 *)

\* C16: once NewFormat has returned, its error is nil, FormatError or
\* ScopeError, and a Format it returned with no error has a type and a
\* subject; once Verify has returned on that Format, for every
\* configuration, its error is nil, TypeError, StyleError or SubjectError:
\* the subject is not empty, so the subject check never returns FormatError.
C16_FailureKindsByComponent ==
    /\ ParsedState =>
          /\ err \in {Nil, ErrFormat, ErrScope}
          /\ err = Nil => (format.Type # <<>> /\ format.Subject # <<>>)
    /\ VerifiedState =>
          /\ err \in {Nil, ErrType, ErrStyle, ErrSubject}
          /\ Len(format.Subject) > 0
          /\ subjectLinter(format, conf.SubjectPattern) # ErrFormat

\* the subject check has run on a parsed message and refused it
C16_Witness ==
    /\ VerifiedState
    /\ LintersRun = <<"typeLinter", "scopeLinter", "subjectLinter">>
    /\ NewFormat(s).err = Nil
    /\ format = NewFormat(s).format
    /\ err = ErrSubject

====
